---- MODULE Spec2Model ----
(***************************************************************************)
(* A state-machine model of RLLib's control algorithms                     *)
(* (src/src/ControlAlgorithm.h): SarsaControl, ExpectedSarsaControl,       *)
(* GreedyGQ, GQOnPolicyControl, the actors (Actor, ActorLambda,            *)
(* ActorNatural, ActorLambdaOffPolicy), OffPAC, ActorCritic and            *)
(* AverageRewardActorCritic.                                               *)
(*                                                                         *)
(* One learner instance is modelled.  Its class is chosen in Init and      *)
(* never changes.  Every public method is one action; an action applies    *)
(* the method's statements in program order to a record holding the        *)
(* instance's fields (Cur), and commits the record (Commit).               *)
(*                                                                         *)
(* A double is modelled as a fixed-point number: an integer counting       *)
(* halves (Half = 0.5, One = 1.0), finite up to magnitude DMax, with the   *)
(* three IEEE specials +Inf, -Inf and NaN.  A finite result beyond DMax    *)
(* overflows to an infinity, as a double does beyond DBL_MAX.              *)
(***************************************************************************)
EXTENDS Integers, Sequences, FiniteSets, TLC

\* ------------------------------------------------------------------ bounds
\* Largest finite magnitude of a double, in units of 1.0.
DMax == 2
\* Number of step / update calls explored on one instance.
MaxSteps == 2

\* ------------------------------------------------------- double arithmetic
Half == 1
One == Half + Half
DLimit == DMax * One
PInf == DLimit + 1
NInf == -PInf
NaN == DLimit + 2

IsNaN(a) == a = NaN
IsInf(a) == a = PInf \/ a = NInf
IsFin(a) == a >= -DLimit /\ a <= DLimit

Ovf(n) == IF n > DLimit THEN PInf ELSE IF n < -DLimit THEN NInf ELSE n
Sgn(a) == IF a > 0 THEN 1 ELSE IF a < 0 THEN -1 ELSE 0
Trunc(p) == IF p >= 0 THEN p \div One ELSE -((-p) \div One)

DNeg(a) == IF IsNaN(a) THEN NaN ELSE -a

DAdd(a, b) ==
  IF IsNaN(a) \/ IsNaN(b) THEN NaN
  ELSE IF IsFin(a) /\ IsFin(b) THEN Ovf(a + b)
  ELSE IF IsFin(a) THEN b
  ELSE IF IsFin(b) THEN a
  ELSE IF a = b THEN a ELSE NaN

DSub(a, b) == DAdd(a, DNeg(b))

DMul(a, b) ==
  IF IsNaN(a) \/ IsNaN(b) THEN NaN
  ELSE IF IsFin(a) /\ IsFin(b) THEN Ovf(Trunc(a * b))
  ELSE IF Sgn(a) * Sgn(b) = 0 THEN NaN
  ELSE IF Sgn(a) * Sgn(b) > 0 THEN PInf ELSE NInf

DDiv(a, b) ==
  IF IsNaN(a) \/ IsNaN(b) THEN NaN
  ELSE IF IsInf(a) /\ IsInf(b) THEN NaN
  ELSE IF IsInf(b) THEN 0
  ELSE IF b = 0 THEN (IF a = 0 THEN NaN ELSE IF a > 0 THEN PInf ELSE NInf)
  ELSE IF IsInf(a) THEN (IF Sgn(a) * Sgn(b) > 0 THEN PInf ELSE NInf)
  ELSE Ovf(Sgn(a) * Sgn(b) * ((Sgn(a) * a * One) \div (Sgn(b) * b)))

\* ------------------------------------------------------------ sparse vectors
Obs == {1, 2}
Actions == {1, 2}
Idx == {1, 2}
Blocks == {1, 2}

VZero == [i \in Idx |-> 0]
\* addToSelf(f, v): only the active (non-zero) entries of v are visited.
VAddToSelf(self, f, v) ==
  [i \in Idx |-> IF v[i] = 0 THEN self[i] ELSE DAdd(self[i], DMul(f, v[i]))]
\* mapMultiplyToSelf / multiplyToSelf(f): only the active entries are scaled.
VScale(f, v) == [i \in Idx |-> IF v[i] = 0 THEN 0 ELSE DMul(f, v[i])]
VTerm(a, b, i) == IF a[i] = 0 \/ b[i] = 0 THEN 0 ELSE DMul(a[i], b[i])
VDot(a, b) == DAdd(VTerm(a, b, 1), VTerm(a, b, 2))
BZero == [i \in Blocks |-> VZero]

\* ----------------------------------------------------------- collaborators
\* StateToStateAction::stateActions(x)->at(a): one entry per action, scaled
\* by the observation.
Features(x, a) == [i \in Idx |-> IF i = a THEN x * One ELSE 0]
\* Projector::project(x): one-hot over the observations.
Project(x) == [i \in Idx |-> IF i = x THEN One ELSE 0]

PolicyIds == {"acting", "target", "behavior", "actorPolicy"}

Dist2(p1, p2) == [a \in Actions |-> IF a = 1 THEN p1 ELSE p2]
\* The distribution of the actor's PolicyDistribution at x: a softmax over the
\* preferences u[a] . project(x), saturated on this grid.
ActorDist(x, uu) ==
  LET h1 == VDot(uu[1], Project(x))
      h2 == VDot(uu[2], Project(x))
  IN  IF IsNaN(h1) \/ IsNaN(h2) \/ (IsInf(h1) /\ h1 = h2) THEN Dist2(NaN, NaN)
      ELSE IF h1 = h2 THEN Dist2(Half, Half)
      ELSE IF h1 > h2 THEN Dist2(One, 0) ELSE Dist2(0, One)

\* Policy::update(phi) computes the distribution pi(.) will read until the
\* next update.
Distribution(p, x, uu) ==
  CASE p = "acting" -> IF x = 1 THEN Dist2(Half, Half) ELSE Dist2(One, 0)
    [] p = "target" -> IF x = 1 THEN Dist2(0, One) ELSE Dist2(One, 0)
    [] p = "behavior" -> IF x = 1 THEN Dist2(Half, Half) ELSE Dist2(One, 0)
    [] OTHER -> ActorDist(x, uu)

PolicyUpdate(s, p, x) ==
  [s EXCEPT !.pol[p] = [obs |-> x, pi |-> Distribution(p, x, s.u)],
            !.events = Append(@, [ev |-> p, arg |-> x])]

Positive(pr) == IsFin(pr) /\ pr > 0
\* Policy::sampleAction(): any action of positive probability; when the
\* distribution has none (NaN), the draw falls through to some action.
SampleSet(pi) ==
  IF \E a \in Actions : Positive(pi[a])
  THEN {a \in Actions : Positive(pi[a])}
  ELSE Actions
\* Policy::sampleBestAction(): the first action of greatest probability.
BestAction(pi) ==
  IF Positive(pi[2]) /\ (~Positive(pi[1]) \/ pi[2] > pi[1]) THEN 2 ELSE 1

\* Predictor step sizes and discount (constructor arguments of the predictors).
Alpha == One
Gamma == One

\* r + g * (q . next) - q . phi
TDError(qq, phi, next, r, g) ==
  DSub(DAdd(r, DMul(g, VDot(qq, next))), VDot(qq, phi))

Fail(s) == [s EXCEPT !.failed = TRUE]

\* Boundedness::checkValue(v): a NaN, infinite or negative ratio is refused.
CheckRho(v) == IsFin(v) /\ v >= 0
\* Boundedness::checkValue(v) on a TD error: NaN and the infinities are refused.
CheckValue(v) == IsFin(v)

NoCall == [n |-> 0, phi |-> VZero, next |-> VZero, rho |-> 0, r |-> 0, z |-> 0,
           delta |-> 0]

\* Sarsa::initialize / OnPolicyTD::initialize / GQ::initialize /
\* GTDLambda::initialize
PredictorInitialize(s) == [s EXCEPT !.predInit = TRUE, !.ec = VZero]
PredictorReset(s) == [s EXCEPT !.predInit = FALSE, !.ec = VZero, !.q = VZero]

\* Sarsa::update(phi_t, phi_tp1, r_tp1) and OnPolicyTD::update(phi_t, phi_tp1, r)
Called(s, phi, next, rho, r, z, delta) ==
  [s EXCEPT !.ret = delta,
            !.events = Append(@, [ev |-> "critic", arg |-> 0]),
            !.predCall = [n |-> @.n + 1, phi |-> phi, next |-> next,
                          rho |-> rho, r |-> r, z |-> z, delta |-> delta]]

TDApply(s, phi, next, r, delta) ==
  Called([s EXCEPT !.q = VAddToSelf(@, DMul(Alpha, delta), phi)],
         phi, next, One, r, 0, delta)
TDUpdate(s, phi, next, r) ==
  IF ~s.predInit THEN Fail(s)
  ELSE TDApply(s, phi, next, r, TDError(s.q, phi, next, r, Gamma))

\* GQ::update(phi_t, phi_bar_tp1, rho_t, r_tp1, z_tp1)
GQApply(s, phi, bar, rho, r, z, delta) ==
  Called([s EXCEPT !.q = VAddToSelf(@, DMul(DMul(Alpha, rho), delta), phi)],
         phi, bar, rho, r, z, delta)
GQUpdate(s, phi, bar, rho, r, z) ==
  IF ~s.predInit THEN Fail(s)
  ELSE GQApply(s, phi, bar, rho, r, z, TDError(s.q, phi, bar, r, z))

\* GTDLambda::update(phi_t, phi_tp1, rho_t, gamma_t, r_tp1, z_tp1)
GTDApply(s, phi, next, rho, r, z, delta) ==
  \* the critic's own lambda is 0: its trace restarts at rho * phi
  Called([s EXCEPT !.ec = VScale(rho, phi),
                   !.q = VAddToSelf(@, DMul(Alpha, delta), VScale(rho, phi))],
         phi, next, rho, r, z, delta)
GTDUpdate(s, phi, next, rho, g, r, z) ==
  IF ~s.predInit THEN Fail(s)
  ELSE GTDApply(s, phi, next, rho, r, z,
                TDError(s.q, phi, next, r, DMul(g, z)))

\* ------------------------------------------------------------------- state
VARIABLES
  learner,        \* class of the control learner, "None" for a bare actor
  actorKind,      \* class of the actor, "None" when the learner has none
  t,              \* step / update calls so far
  predInit,       \* the predictor's initialized flag
  q,              \* the predictor's (critic's) weights
  ec,             \* the critic's eligibility trace (GTDLambda)
  xa_t,           \* SarsaControl::xa_t
  phi_t,          \* GreedyGQ::phi_t, OffPAC::phi_t, ActorCritic::phi_t
  phi_tp1,        \* OffPAC::phi_tp1, ActorCritic::phi_tp1
  phi_bar_tp1,    \* ExpectedSarsaControl / GreedyGQ ::phi_bar_tp1
  rho_t,          \* GreedyGQ::rho_t, OffPAC::rho_t
  delta_t,        \* OffPAC::delta_t
  pol,            \* each policy object's cached observation and distribution
  initialized,    \* Actor::initialized / AbstractActorOffPolicy::initialized
  u,              \* the policy parameters, one vector per block
  e,              \* the actor's traces, one per block
  w,              \* ActorNatural::w
  averageReward,  \* AverageRewardActorCritic::averageReward
  predCall,       \* arguments and result of the last predictor update
  actorCall,      \* arguments of the last accepted actor update
  events,         \* sub-operations of the last call, in program order
  result,         \* the last call: its name, whether it completed, its value
  prevObs,        \* observation last passed as x_0 / x_tp1 to a completed call
  disk,           \* persisted vectors by file name
  saved,          \* answers of the queries when persist was last called
  fresh,          \* the instance was constructed and has only been resurrected
  ready,          \* history: initialize was called, and no reset since
  pi_a_t,         \* history: the probability the behavior policy's cache gave
                  \* a_t on entry to the last GreedyGQ step
  prevAct         \* history: the action last returned by a completed
                  \* initialize / step of a learner that caches features

vars == <<learner, actorKind, t, predInit, q, ec, xa_t, phi_t, phi_tp1,
          phi_bar_tp1, rho_t, delta_t, pol, initialized, u, e, w,
          averageReward, predCall, actorCall, events, result, prevObs, disk,
          saved, fresh, ready, pi_a_t, prevAct>>

Cur ==
  [learner |-> learner, actorKind |-> actorKind, t |-> t, predInit |-> predInit,
   q |-> q, ec |-> ec, xa_t |-> xa_t, phi_t |-> phi_t, phi_tp1 |-> phi_tp1,
   phi_bar_tp1 |-> phi_bar_tp1, rho_t |-> rho_t, delta_t |-> delta_t,
   pol |-> pol, initialized |-> initialized, u |-> u, e |-> e, w |-> w,
   averageReward |-> averageReward, predCall |-> predCall,
   actorCall |-> actorCall, prevObs |-> prevObs, disk |-> disk,
   saved |-> saved, fresh |-> fresh, ready |-> ready, pi_a_t |-> pi_a_t,
   prevAct |-> prevAct,
   events |-> << >>, failed |-> FALSE, ret |-> 0]

Commit(s, op) ==
  /\ learner' = s.learner
  /\ actorKind' = s.actorKind
  /\ t' = s.t
  /\ predInit' = s.predInit
  /\ q' = s.q
  /\ ec' = s.ec
  /\ xa_t' = s.xa_t
  /\ phi_t' = s.phi_t
  /\ phi_tp1' = s.phi_tp1
  /\ phi_bar_tp1' = s.phi_bar_tp1
  /\ rho_t' = s.rho_t
  /\ delta_t' = s.delta_t
  /\ pol' = s.pol
  /\ initialized' = s.initialized
  /\ u' = s.u
  /\ e' = s.e
  /\ w' = s.w
  /\ averageReward' = s.averageReward
  /\ predCall' = s.predCall
  /\ actorCall' = s.actorCall
  /\ prevObs' = s.prevObs
  /\ disk' = s.disk
  /\ saved' = s.saved
  /\ fresh' = s.fresh
  /\ ready' = s.ready
  /\ pi_a_t' = s.pi_a_t
  /\ prevAct' = s.prevAct
  /\ events' = s.events
  /\ result' = [op |-> op, ok |-> ~s.failed, ret |-> s.ret]

\* ------------------------------------------------------------------ actors
\* Constructor arguments of the actors and of the actor-critics.
alpha_u == One
alpha_v == Half
alpha_r == Half
gamma == One
lambda == Half
gamma_t == One

OnPolicyActors == {"Actor", "ActorLambda", "ActorNatural"}
OffPolicyActors == {"ActorLambdaOffPolicy"}

\* PolicyDistribution::computeGradLog(phi, a): one vector per block, read off
\* the distribution cached by the last update of the policy.
GradLog(pi, x, a) ==
  [i \in Blocks |->
     VScale(DSub(IF a = i THEN One ELSE 0, pi[i]), Project(x))]

\* Trace::update(decay, g): the trace is scaled by decay, then g is added.
TraceUpdate(tr, decay, g) == VAddToSelf(VScale(decay, tr), One, g)

\* an update that does not look at initialized
AlwaysAccepted(s) == TRUE
\* assert(initialized) at the head of every update
UpdateAccepted(s) == s.initialized

NoActorCall == [n |-> 0, x |-> 0, a |-> 0, rho |-> 0, g |-> 0, delta |-> 0,
                cacheObs |-> 0, gradLog |-> BZero]

RecordActorCall(s, x, a, rho, g, delta, gl) ==
  [s EXCEPT !.actorCall = [n |-> @.n + 1, x |-> x, a |-> a, rho |-> rho,
                           g |-> g, delta |-> delta,
                           cacheObs |-> s.pol["actorPolicy"].obs,
                           gradLog |-> gl],
            !.events = Append(@, [ev |-> "actor", arg |-> x])]

\* Actor::update, the body of the loop over the blocks
ActorBlock(ui, gi, delta) == VAddToSelf(ui, DMul(alpha_u, delta), gi)

\* variant of ActorLambdaBlock: u moved along the trace of before the update
ActorLambdaBlockOldTrace(ui, ei, gi, delta) ==
  [e |-> TraceUpdate(ei, DMul(gamma, lambda), gi),
   u |-> VAddToSelf(ui, DMul(alpha_u, delta), ei)]
\* ActorLambda::update, the body of the loop: the trace, then u from it
LambdaStep(ui, e1, delta) ==
  [e |-> e1, u |-> VAddToSelf(ui, DMul(alpha_u, delta), e1)]
ActorLambdaBlock(ui, ei, gi, delta) ==
  LambdaStep(ui, TraceUpdate(ei, DMul(gamma, lambda), gi), delta)

\* ActorLambdaOffPolicy::update, the body of the loop; g is the gamma_t
\* passed to update, which hides the member of that name
OffPolicyBlock(ui, ei, gi, rho, g, delta) ==
  LambdaStep(ui, VScale(rho, TraceUpdate(ei, DMul(g, lambda), gi)), delta)

\* ActorNatural::update: the advantage from w as it is on entry
AdvantageValue(gl, ww) == DAdd(DAdd(0, VDot(gl[1], ww[1])), VDot(gl[2], ww[2]))
\* variant: u moved by delta times the raw gradient
NaturalBlockRawGradient(ui, wi, gi, delta, adv) ==
  [w |-> VAddToSelf(wi, DMul(alpha_v, DSub(delta, adv)), gi),
   u |-> VAddToSelf(ui, DMul(alpha_u, delta), gi)]
NaturalStep(ui, w1) == [w |-> w1, u |-> VAddToSelf(ui, alpha_u, w1)]
NaturalBlock(ui, wi, gi, delta, adv) ==
  NaturalStep(ui, VAddToSelf(wi, DMul(alpha_v, DSub(delta, adv)), gi))

ActorBlocks(s, gl, delta) ==
  [s EXCEPT !.u = [i \in Blocks |-> ActorBlock(s.u[i], gl[i], delta)]]

ActorLambdaBlocks(s, gl, delta) ==
  [s EXCEPT
     !.u = [i \in Blocks |-> ActorLambdaBlock(s.u[i], s.e[i], gl[i], delta).u],
     !.e = [i \in Blocks |-> ActorLambdaBlock(s.u[i], s.e[i], gl[i], delta).e]]

NaturalBlocks(s, gl, delta, adv) ==
  [s EXCEPT
     !.u = [i \in Blocks |-> NaturalBlock(s.u[i], s.w[i], gl[i], delta, adv).u],
     !.w = [i \in Blocks |-> NaturalBlock(s.u[i], s.w[i], gl[i], delta, adv).w]]

ActorApply(s, gl, delta) ==
  CASE s.actorKind = "Actor" -> ActorBlocks(s, gl, delta)
    [] s.actorKind = "ActorLambda" -> ActorLambdaBlocks(s, gl, delta)
    [] OTHER -> NaturalBlocks(s, gl, delta, AdvantageValue(gl, s.w))

ActorGradient(s, x, a, delta, gl) ==
  ActorApply(RecordActorCall(s, x, a, One, gamma, delta, gl), gl, delta)

\* ActorOnPolicy::update(phi_t, a_t, delta) of Actor, ActorLambda, ActorNatural
ActorUpdate(s, x, a, delta) ==
  IF ~UpdateAccepted(s) THEN Fail(s)
  ELSE ActorGradient(s, x, a, delta, GradLog(s.pol["actorPolicy"].pi, x, a))

OffPolicyBlocks(s, gl, rho, g, delta) ==
  [s EXCEPT
     !.u = [i \in Blocks |->
              OffPolicyBlock(s.u[i], s.e[i], gl[i], rho, g, delta).u],
     !.e = [i \in Blocks |->
              OffPolicyBlock(s.u[i], s.e[i], gl[i], rho, g, delta).e]]

ActorOffPolicyGradient(s, x, a, rho, g, delta, gl) ==
  OffPolicyBlocks(RecordActorCall(s, x, a, rho, g, delta, gl), gl, rho, g, delta)

\* ActorLambdaOffPolicy::update(phi_t, a_t, rho_t, gamma_t, delta_t)
ActorOffPolicyUpdate(s, x, a, rho, g, delta) ==
  IF ~UpdateAccepted(s) THEN Fail(s)
  ELSE ActorOffPolicyGradient(s, x, a, rho, g, delta,
                              GradLog(s.pol["actorPolicy"].pi, x, a))

\* Actor::initialize, ActorLambda::initialize, AbstractActorOffPolicy::initialize,
\* ActorLambdaOffPolicy::initialize
ActorInitialize(s) ==
  IF s.actorKind \in {"ActorLambda", "ActorLambdaOffPolicy"}
  THEN [s EXCEPT !.initialized = TRUE, !.e = BZero]
  ELSE [s EXCEPT !.initialized = TRUE]

\* Actor::reset, ActorLambda::reset, ActorNatural::reset,
\* AbstractActorOffPolicy::reset, ActorLambdaOffPolicy::reset
ActorResetSub(s) ==
  CASE s.actorKind \in {"ActorLambda", "ActorLambdaOffPolicy"} ->
         [s EXCEPT !.e = BZero]
    [] s.actorKind = "ActorNatural" -> [s EXCEPT !.w = BZero]
    [] OTHER -> s
ActorReset(s) ==
  ActorResetSub([s EXCEPT !.u = BZero, !.initialized = FALSE])

\* Actor::proposeAction(phi), AbstractActorOffPolicy::proposeAction(phi)
ActorBest(s) == [s EXCEPT !.ret = BestAction(s.pol["actorPolicy"].pi)]
ActorProposeAction(s, x) == ActorBest(PolicyUpdate(s, "actorPolicy", x))

\* ------------------------------------------------- inputs of the driver
Rewards == {0, One + One}
Discounts == {0, One}
Names == {"m"}
FileNames == Names \cup {f \o ".critic" : f \in Names}
                   \cup {f \o ".actor" : f \in Names}

ValueLearners == {"SarsaControl", "ExpectedSarsaControl", "GreedyGQ",
                  "GQOnPolicyControl"}
SarsaFamily == {"SarsaControl", "ExpectedSarsaControl"}
GQFamily == {"GreedyGQ", "GQOnPolicyControl"}
ActorCritics == {"ActorCritic", "AverageRewardActorCritic"}
Composites == ActorCritics \cup {"OffPAC"}

Returned(s, a, x) ==
  [s EXCEPT !.ret = a, !.prevObs = x,
            !.prevAct = IF s.learner \in ValueLearners THEN a ELSE @,
            !.events = Append(@, [ev |-> "sample", arg |-> a])]

\* ------------------------------------------- SarsaControl, ExpectedSarsaControl
SarsaInitializeSample(s, x) ==
  {Returned([s EXCEPT !.xa_t = Features(x, a)], a, x) :
     a \in SampleSet(s.pol["acting"].pi)}
SarsaInitialize(s, x) ==
  SarsaInitializeSample(PolicyUpdate(PredictorInitialize(s), "acting", x), x)

\* variant: the action returned without xa_t->set(xa_tp1)
SarsaNoAdvance(s, x_tp1, a_tp1) ==
  IF s.failed THEN s ELSE Returned(s, a_tp1, x_tp1)
\* xa_t->set(xa_tp1); return a_tp1; -- not reached when the update aborted
SarsaAdvance(s, x_tp1, a_tp1) ==
  IF s.failed THEN s
  ELSE Returned([s EXCEPT !.xa_t = Features(x_tp1, a_tp1)], a_tp1, x_tp1)

SarsaStepSample(s, x_tp1, r_tp1) ==
  {SarsaAdvance(TDUpdate(s, s.xa_t, Features(x_tp1, a_tp1), r_tp1),
                x_tp1, a_tp1) :
     a_tp1 \in SampleSet(s.pol["acting"].pi)}
SarsaStep(s, x_t, a_t, x_tp1, r_tp1, z_tp1) ==
  SarsaStepSample(PolicyUpdate(s, "acting", x_tp1), x_tp1, r_tp1)

\* variant: the vector kept as the previous step left it
NotCleared(v) == v
\* phi_bar_tp1->clear()
Cleared(v) == VZero

\* one turn of the loop over the actions: zero-probability actions are skipped
Accumulate(bar, pi, x, a) ==
  IF pi[a] = 0 THEN bar ELSE VAddToSelf(bar, pi[a], Features(x, a))
ExpectationLoop(bar, pi, x) == Accumulate(Accumulate(bar, pi, x, 1), pi, x, 2)

ExpectedSarsaUpdate(s, x_tp1, r_tp1, a_tp1) ==
  SarsaAdvance(TDUpdate(s, s.xa_t, s.phi_bar_tp1, r_tp1), x_tp1, a_tp1)

ExpectedSarsaLoop(s, x_tp1, r_tp1, a_tp1) ==
  IF \E a \in Actions : s.pol["acting"].pi[a] = 0 /\ a = a_tp1
  THEN \* assert((*a)->id() != a_tp1->id())
       Fail(s)
  ELSE ExpectedSarsaUpdate(
         [s EXCEPT !.phi_bar_tp1 =
            ExpectationLoop(@, s.pol["acting"].pi, x_tp1)],
         x_tp1, r_tp1, a_tp1)

ExpectedSarsaSample(s, x_tp1, r_tp1) ==
  {ExpectedSarsaLoop(s, x_tp1, r_tp1, a_tp1) :
     a_tp1 \in SampleSet(s.pol["acting"].pi)}

ExpectedSarsaStep(s, x_t, a_t, x_tp1, r_tp1, z_tp1) ==
  ExpectedSarsaSample(
    PolicyUpdate([s EXCEPT !.phi_bar_tp1 = Cleared(@)], "acting", x_tp1),
    x_tp1, r_tp1)

\* V(s) = \sum_a pi(s,a) * Q(s,a), accumulated in the order of the action list
WeightedValue(qq, pi, x) ==
  DAdd(DAdd(0, DMul(pi[1], VDot(qq, Features(x, 1)))),
       DMul(pi[2], VDot(qq, Features(x, 2))))

BestOf(s, p) == [s EXCEPT !.ret = BestAction(s.pol[p].pi)]
ValueOf(s, p, x) == [s EXCEPT !.ret = WeightedValue(s.q, s.pol[p].pi, x)]

SarsaProposeAction(s, x) == BestOf(PolicyUpdate(s, "acting", x), "acting")

SarsaComputeValueFunction(s, x) ==
  ValueOf(PolicyUpdate(s, "acting", x), "acting", x)

\* ----------------------------------------------- GreedyGQ, GQOnPolicyControl
\* GQOnPolicyControl's constructor hands acting to GreedyGQ as target and as
\* behavior
TargetOf(s) == IF s.learner = "GQOnPolicyControl" THEN "acting" ELSE "target"
BehaviorOf(s) == IF s.learner = "GQOnPolicyControl" THEN "acting" ELSE "behavior"

\* GreedyGQ::computeRho
ComputeRhoBase(s, a_t) ==
  DDiv(s.pol[TargetOf(s)].pi[a_t], s.pol[BehaviorOf(s)].pi[a_t])

\* variant: computeRho without the override
ComputeRhoNotOverridden(s, a_t) ==
  DDiv(s.pol[TargetOf(s)].pi[a_t], s.pol[BehaviorOf(s)].pi[a_t])
\* the virtual call computeRho(a_t): GQOnPolicyControl overrides it
ComputeRho(s, a_t) ==
  IF s.learner = "GQOnPolicyControl" THEN One ELSE ComputeRhoBase(s, a_t)

GreedyGQSample(s, x) ==
  {Returned([s EXCEPT !.phi_t = Features(x, a)], a, x) :
     a \in SampleSet(s.pol[BehaviorOf(s)].pi)}

GreedyGQInitialize(s, x) ==
  GreedyGQSample(
    PolicyUpdate(PolicyUpdate(PredictorInitialize(s), TargetOf(s), x),
                 BehaviorOf(s), x),
    x)

\* target->update(xas_tp1); sampleAction(behavior, xas_tp1); phi_t->set(...)
GreedyGQNext(s, x_tp1) ==
  IF s.failed THEN {s}
  ELSE GreedyGQSample(
         PolicyUpdate(PolicyUpdate(s, TargetOf(s), x_tp1), BehaviorOf(s), x_tp1),
         x_tp1)

\* gq->update(phi_t, phi_bar_tp1, rho_t, r_tp1, z_tp1)
GreedyGQUpdate(s, x_tp1, r_tp1, z_tp1) ==
  GreedyGQNext(GQUpdate(s, s.phi_t, s.phi_bar_tp1, s.rho_t, r_tp1, z_tp1), x_tp1)

\* phi_bar_tp1->clear() and the loop over the actions
GreedyGQExpectation(s, x_tp1, r_tp1, z_tp1) ==
  GreedyGQUpdate(
    [s EXCEPT !.phi_bar_tp1 =
       ExpectationLoop(Cleared(@), s.pol[TargetOf(s)].pi, x_tp1)],
    x_tp1, r_tp1, z_tp1)

GreedyGQStep(s, x_t, a_t, x_tp1, r_tp1, z_tp1) ==
  GreedyGQExpectation(
    PolicyUpdate(
      [s EXCEPT !.rho_t = ComputeRho(s, a_t),
                !.events = Append(@, [ev |-> "computeRho", arg |-> a_t])],
      TargetOf(s), x_tp1),
    x_tp1, r_tp1, z_tp1)

GreedyGQProposeAction(s, x) ==
  BestOf(PolicyUpdate(s, TargetOf(s), x), TargetOf(s))

GreedyGQComputeValueFunction(s, x) ==
  ValueOf(PolicyUpdate(s, TargetOf(s), x), TargetOf(s), x)

\* ------------------------------ AbstractActorCritic and its two subclasses
\* variant: the reward without the baseline
RawReward(r_tp1, avg) == r_tp1
\* the reward handed to the critic by AverageRewardActorCritic::updateCritic
CriticReward(r_tp1, avg) == DSub(r_tp1, avg)

\* averageReward += alpha_r * delta_t -- not reached when the update aborted
AverageRewardAdvance(s) ==
  IF s.failed THEN s
  ELSE [s EXCEPT !.averageReward = DAdd(@, DMul(alpha_r, s.ret))]

CriticUpdate(s, r_tp1) ==
  IF s.learner = "ActorCritic"
  THEN TDUpdate(s, s.phi_t, s.phi_tp1, r_tp1)
  ELSE AverageRewardAdvance(
         TDUpdate(s, s.phi_t, s.phi_tp1, CriticReward(r_tp1, s.averageReward)))

\* ActorCritic::updateCritic, AverageRewardActorCritic::updateCritic
UpdateCritic(s, x_t, a_t, x_tp1, r_tp1, z_tp1) ==
  CriticUpdate(
    [s EXCEPT !.phi_t = Project(x_t), !.phi_tp1 = Project(x_tp1),
              !.events = Append(@, [ev |-> "updateCritic", arg |-> r_tp1])],
    r_tp1)

\* variant: updateActor without policy()->update(phi_t)
UpdateActorNoRefresh(s, x_t, a_t, actorDelta) ==
  ActorUpdate(s, x_t, a_t, actorDelta)
\* AbstractActorCritic::updateActor
UpdateActor(s, x_t, a_t, actorDelta) ==
  ActorUpdate(PolicyUpdate(s, "actorPolicy", x_t), x_t, a_t, actorDelta)

ActorSample(s, x) ==
  {Returned(s, a, x) : a \in SampleSet(s.pol["actorPolicy"].pi)}

ActorCriticInitialize(s, x_0) ==
  ActorSample(
    PolicyUpdate(ActorInitialize(PredictorInitialize(s)), "actorPolicy", x_0),
    x_0)

\* policy()->update(stateActions(x_tp1)); return policy()->sampleAction();
ActorCriticNext(s, x_tp1) ==
  IF s.failed THEN {s}
  ELSE ActorSample(PolicyUpdate(s, "actorPolicy", x_tp1), x_tp1)

\* updateActor(x_t, a_t, delta_t), with the delta_t updateCritic returned
ActorCriticActor(s, x_t, a_t, x_tp1) ==
  IF s.failed THEN {s}
  ELSE ActorCriticNext(UpdateActor(s, x_t, a_t, s.ret), x_tp1)

\* AbstractActorCritic::step
ActorCriticStep(s, x_t, a_t, x_tp1, r_tp1, z_tp1) ==
  ActorCriticActor(UpdateCritic(s, x_t, a_t, x_tp1, r_tp1, z_tp1),
                   x_t, a_t, x_tp1)

ActorCriticReset(s) == ActorReset(PredictorReset(s))

ActorCriticProposeAction(s, x) == ActorProposeAction(s, x)

\* AbstractActorCritic::computeValueFunction, OffPAC::computeValueFunction
CriticValueFunction(s, x) == [s EXCEPT !.ret = VDot(s.q, Project(x))]

\* -------------------------------------------------------------------- OffPAC
BehaviorSample(s, x) ==
  {Returned(s, a, x) : a \in SampleSet(s.pol["behavior"].pi)}

OffPACInitialize(s, x_0) ==
  BehaviorSample(
    PolicyUpdate(ActorInitialize(PredictorInitialize(s)), "behavior", x_0),
    x_0)

\* return Policies::sampleAction(behavior, stateActions(x_tp1))
OffPACNext(s, x_tp1) ==
  IF s.failed THEN {s}
  ELSE BehaviorSample(PolicyUpdate(s, "behavior", x_tp1), x_tp1)

\* Boundedness::checkValue(delta_t); actor->update(...)
OffPACActor(s, x_t, a_t, x_tp1) ==
  IF ~CheckValue(s.delta_t) THEN {Fail(s)}
  ELSE OffPACNext(
         ActorOffPolicyUpdate(s, x_t, a_t, s.rho_t, gamma_t, s.delta_t), x_tp1)

\* delta_t = the value critic->update returned
OffPACDelta(s, x_t, a_t, x_tp1) ==
  IF s.failed THEN {s}
  ELSE OffPACActor([s EXCEPT !.delta_t = s.ret], x_t, a_t, x_tp1)

\* Boundedness::checkValue(rho_t); delta_t = critic->update(...)
OffPACCritic(s, x_t, a_t, x_tp1, r_tp1, z_tp1) ==
  IF ~CheckRho(s.rho_t) THEN {Fail(s)}
  ELSE OffPACDelta(
         GTDUpdate(s, s.phi_t, s.phi_tp1, s.rho_t, gamma_t, r_tp1, z_tp1),
         x_t, a_t, x_tp1)

\* rho_t = actor->pi(a_t) / behavior->pi(a_t)
OffPACRho(s, x_t, a_t, x_tp1, r_tp1, z_tp1) ==
  OffPACCritic(
    [s EXCEPT !.rho_t = DDiv(s.pol["actorPolicy"].pi[a_t],
                             s.pol["behavior"].pi[a_t])],
    x_t, a_t, x_tp1, r_tp1, z_tp1)

OffPACStep(s, x_t, a_t, x_tp1, r_tp1, z_tp1) ==
  OffPACRho(
    PolicyUpdate(
      PolicyUpdate(
        [s EXCEPT !.phi_t = Project(x_t), !.phi_tp1 = Project(x_tp1)],
        "actorPolicy", x_t),
      "behavior", x_t),
    x_t, a_t, x_tp1, r_tp1, z_tp1)

\* ------------------------------------------------------ dispatch by class
InitializeOf(s, x) ==
  CASE s.learner \in SarsaFamily -> SarsaInitialize(s, x)
    [] s.learner \in GQFamily -> GreedyGQInitialize(s, x)
    [] s.learner \in ActorCritics -> ActorCriticInitialize(s, x)
    [] OTHER -> OffPACInitialize(s, x)

StepOf(s, x_t, a_t, x_tp1, r_tp1, z_tp1) ==
  CASE s.learner = "SarsaControl" -> SarsaStep(s, x_t, a_t, x_tp1, r_tp1, z_tp1)
    [] s.learner = "ExpectedSarsaControl" ->
         ExpectedSarsaStep(s, x_t, a_t, x_tp1, r_tp1, z_tp1)
    [] s.learner \in GQFamily -> GreedyGQStep(s, x_t, a_t, x_tp1, r_tp1, z_tp1)
    [] s.learner \in ActorCritics ->
         ActorCriticStep(s, x_t, a_t, x_tp1, r_tp1, z_tp1)
    [] OTHER -> OffPACStep(s, x_t, a_t, x_tp1, r_tp1, z_tp1)

ResetOf(s) ==
  IF s.learner \in ValueLearners THEN PredictorReset(s) ELSE ActorCriticReset(s)

ProposeActionOf(s, x) ==
  CASE s.learner \in SarsaFamily -> SarsaProposeAction(s, x)
    [] s.learner \in GQFamily -> GreedyGQProposeAction(s, x)
    [] OTHER -> ActorProposeAction(s, x)

ComputeValueFunctionOf(s, x) ==
  CASE s.learner \in SarsaFamily -> SarsaComputeValueFunction(s, x)
    [] s.learner \in GQFamily -> GreedyGQComputeValueFunction(s, x)
    [] OTHER -> CriticValueFunction(s, x)

\* ---------------------------------------------------------------- persistence
Absent == << >>
PersistCriticFile(f) == f \o ".critic"
PersistActorFile(f) == f \o ".actor"
\* variant: the critic read from the actor's file
ResurrectCriticFromActorFile(f) == f \o ".actor"
ResurrectCriticFile(f) == f \o ".critic"
ResurrectActorFile(f) == f \o ".actor"

\* SparseVectors::persist / resurrect, and the predictors' persist / resurrect
BlocksToFile(uu) == <<uu[1], uu[2]>>
FileToBlocks(c) == [i \in Blocks |-> c[i]]

Answers(s) ==
  [valid |-> TRUE,
   v |-> [x \in Obs |-> IF s.learner = "None" THEN 0
                        ELSE ComputeValueFunctionOf(s, x).ret],
   best |-> [x \in Obs |-> ProposeActionOf(s, x).ret]]
NoAnswers == [valid |-> FALSE, v |-> [x \in Obs |-> 0], best |-> [x \in Obs |-> 1]]

PersistOf(s, f) ==
  CASE s.learner \in ValueLearners ->
         [s EXCEPT !.saved = Answers(s), !.disk[f] = <<s.q>>]
    [] s.learner \in Composites ->
         [s EXCEPT !.saved = Answers(s),
                   !.disk[PersistCriticFile(f)] = <<s.q>>,
                   !.disk[PersistActorFile(f)] = BlocksToFile(s.u)]
    [] OTHER -> [s EXCEPT !.saved = Answers(s), !.disk[f] = BlocksToFile(s.u)]

ResurrectFiles(s, f) ==
  IF s.learner \in Composites
  THEN {ResurrectCriticFile(f), ResurrectActorFile(f)}
  ELSE {f}

ResurrectOf(s, f) ==
  CASE s.learner \in ValueLearners -> [s EXCEPT !.q = s.disk[f][1]]
    [] s.learner \in Composites ->
         [s EXCEPT !.q = s.disk[ResurrectCriticFile(f)][1],
                   !.u = FileToBlocks(s.disk[ResurrectActorFile(f)])]
    [] OTHER -> [s EXCEPT !.u = FileToBlocks(s.disk[f])]

\* ------------------------------------------------ inputs of a bare actor's driver
Deltas == {-One, One}
Rhos == {Half, One + One}

\* ------------------------------------------------------------ construction
Configs ==
  {<<l, "None">> : l \in ValueLearners}
    \cup {<<"OffPAC", k>> : k \in OffPolicyActors}
    \cup {<<l, k>> : l \in ActorCritics, k \in OnPolicyActors}
    \cup {<<"None", k>> : k \in OnPolicyActors \cup OffPolicyActors}

NoPolicy == [obs |-> 0, pi |-> Dist2(0, 0)]
NoResult == [op |-> "new", ok |-> TRUE, ret |-> 0]

\* the fields as the constructors leave them
Constructed(s) ==
  [s EXCEPT !.predInit = FALSE, !.q = VZero, !.ec = VZero, !.xa_t = VZero,
            !.phi_t = VZero, !.phi_tp1 = VZero, !.phi_bar_tp1 = VZero,
            !.rho_t = 0, !.delta_t = 0,
            !.pol = [p \in PolicyIds |-> NoPolicy],
            !.initialized = FALSE, !.u = BZero, !.e = BZero, !.w = BZero,
            !.averageReward = 0, !.predCall = NoCall,
            !.actorCall = NoActorCall, !.prevObs = 0, !.fresh = TRUE,
            !.ready = FALSE, !.pi_a_t = 0, !.prevAct = 0]

Init ==
  /\ \E c \in Configs : learner = c[1] /\ actorKind = c[2]
  /\ t = 0
  /\ disk = [f \in FileNames |-> Absent]
  /\ saved = NoAnswers
  /\ predInit = FALSE
  /\ q = VZero
  /\ ec = VZero
  /\ xa_t = VZero
  /\ phi_t = VZero
  /\ phi_tp1 = VZero
  /\ phi_bar_tp1 = VZero
  /\ rho_t = 0
  /\ delta_t = 0
  /\ pol = [p \in PolicyIds |-> NoPolicy]
  /\ initialized = FALSE
  /\ u = BZero
  /\ e = BZero
  /\ w = BZero
  /\ averageReward = 0
  /\ predCall = NoCall
  /\ actorCall = NoActorCall
  /\ events = << >>
  /\ result = NoResult
  /\ prevObs = 0
  /\ fresh = TRUE
  /\ ready = FALSE
  /\ pi_a_t = 0
  /\ prevAct = 0

Started == [Cur EXCEPT !.fresh = FALSE]

\* A session learns until it persists; the next session constructs a new
\* instance, resurrects it and queries it.
Learning == ~saved.valid

\* ------------------------------------------------------------------ actions
Initialize ==
  /\ learner # "None"
  /\ Learning
  /\ \E x \in Obs : \E s2 \in InitializeOf([Started EXCEPT !.ready = TRUE], x) :
       Commit(s2, "initialize")

Entered(a_t) ==
  [Started EXCEPT !.t = @ + 1,
                  !.pi_a_t = IF learner \in GQFamily
                             THEN pol[BehaviorOf(Cur)].pi[a_t] ELSE @]

Step ==
  /\ learner # "None"
  /\ Learning
  /\ t < MaxSteps
  /\ \E x_t \in Obs, a_t \in Actions, x_tp1 \in Obs, r_tp1 \in Rewards,
        z_tp1 \in Discounts :
       \E s2 \in StepOf(Entered(a_t), x_t, a_t, x_tp1, r_tp1, z_tp1) :
         Commit(s2, "step")

Reset ==
  /\ learner # "None"
  /\ Learning
  /\ Commit(ResetOf([Started EXCEPT !.ready = FALSE]), "reset")

ProposeAction ==
  /\ learner # "None"
  /\ \E x \in Obs : Commit(ProposeActionOf(Cur, x), "proposeAction")

ComputeValueFunction ==
  /\ learner # "None"
  /\ \E x \in Obs :
       Commit(ComputeValueFunctionOf(Cur, x), "computeValueFunction")

Persist == \E f \in Names : Commit(PersistOf(Cur, f), "persist")

Resurrect ==
  \E f \in Names :
    /\ \A n \in ResurrectFiles(Cur, f) : disk[n] # Absent
    /\ Commit(ResurrectOf(Cur, f), "resurrect")

\* a second instance of the same class is constructed with the same arguments;
\* the files stay
NewInstance ==
  /\ ~Learning
  /\ ~fresh
  /\ Commit(Constructed(Cur), "new")

\* the methods of an actor driven on its own
ActorInitializeCall ==
  /\ learner = "None"
  /\ Learning
  /\ Commit(ActorInitialize([Started EXCEPT !.ready = TRUE]), "initialize")

ActorResetCall ==
  /\ learner = "None"
  /\ Learning
  /\ Commit(ActorReset([Started EXCEPT !.ready = FALSE]), "reset")

ActorUpdateCall ==
  /\ learner = "None"
  /\ Learning
  /\ actorKind \in OnPolicyActors
  /\ t < MaxSteps
  /\ \E x \in Obs, a \in Actions, delta \in Deltas :
       Commit(ActorUpdate([Started EXCEPT !.t = @ + 1], x, a, delta), "update")

ActorOffPolicyUpdateCall ==
  /\ learner = "None"
  /\ Learning
  /\ actorKind \in OffPolicyActors
  /\ t < MaxSteps
  /\ \E x \in Obs, a \in Actions, rho \in Rhos, g \in Discounts,
        delta \in Deltas :
       Commit(ActorOffPolicyUpdate([Started EXCEPT !.t = @ + 1], x, a, rho, g,
                                   delta), "update")

ActorProposeActionCall ==
  /\ learner = "None"
  /\ \E x \in Obs : Commit(ActorProposeAction(Cur, x), "proposeAction")

Next ==
  \/ Initialize
  \/ Step
  \/ Reset
  \/ ProposeAction
  \/ ComputeValueFunction
  \/ Persist
  \/ Resurrect
  \/ NewInstance
  \/ ActorInitializeCall
  \/ ActorResetCall
  \/ ActorUpdateCall
  \/ ActorOffPolicyUpdateCall
  \/ ActorProposeActionCall

Spec == Init /\ [][Next]_vars

\* -------------------------------------------------------------- properties
\* C1: computeValueFunction and proposeAction are read-only with respect to
\* learning: they change no learned vector, and the rho_t a GreedyGQ step hands
\* to the GQ update is target.pi(a_t) / behavior.pi(a_t) evaluated at the
\* observation of the last initialize / step (prevObs), the state in which a_t
\* was chosen, whatever queries were made in between.
QueriesAreReadOnly ==
  [][/\ result'.op \in {"proposeAction", "computeValueFunction"}
          => /\ q' = q /\ ec' = ec /\ u' = u /\ e' = e /\ w' = w
             /\ xa_t' = xa_t /\ phi_t' = phi_t
             /\ averageReward' = averageReward
     /\ (learner = "GreedyGQ" /\ predCall'.n = predCall.n + 1 /\ prevObs # 0)
          => predCall'.rho =
               DDiv(Distribution("target", prevObs, u)[events'[1].arg],
                    Distribution("behavior", prevObs, u)[events'[1].arg])]_vars

\* C2: in GreedyGQ.step and OffPAC.step a rho_t that is NaN, infinite or
\* negative makes the step fail, and the predictor update is never called with
\* such a value.
RhoValidatedBeforeUpdate ==
  learner \in {"GreedyGQ", "OffPAC"}
    => /\ predCall.n > 0 => CheckRho(predCall.rho)
       /\ (result.op = "step" /\ ~CheckRho(rho_t)) => ~result.ok

\* C3: an OffPAC.step that fails on the boundedness check of rho_t or of
\* delta_t leaves the critic's weights and trace and the actor's u and e as
\* they were before the step.
FailedStepChangesNothing ==
  [][(learner = "OffPAC" /\ ready /\ t' = t + 1 /\ result'.op = "step"
       /\ ~result'.ok)
       => q' = q /\ ec' = ec /\ u' = u /\ e' = e]_vars

\* C4: an update of a bare actor issued before any initialize, or after a
\* reset with no later initialize (ready is false), aborts and leaves u, e and
\* w unchanged; an update issued after initialize with no reset since (ready is
\* true) is accepted and carried out.
UseBeforeInitializeAborts ==
  [][(learner = "None" /\ result'.op = "update" /\ t' = t + 1)
       => IF ready
          THEN result'.ok /\ actorCall'.n = actorCall.n + 1
          ELSE ~result'.ok /\ u' = u /\ e' = e /\ w' = w
               /\ actorCall' = actorCall]_vars

UpdateRefused ==
  /\ learner = "None" /\ result.op = "update" /\ ~result.ok /\ ~ready
  /\ actorCall.n >= 1 /\ t > actorCall.n /\ u = BZero

\* C5: for ActorLambda and ActorLambdaOffPolicy every trace block is zero after
\* reset and after initialize; an accepted update makes, for every block i,
\* e_i' = gamma*lambda*e_i + gradLog_i (ActorLambda) or
\* e_i' = rho_t*(gamma_t*lambda*e_i + gradLog_i) (ActorLambdaOffPolicy, gamma_t
\* the value passed to update), and u_i' = u_i + alpha_u*delta*e_i'.
TraceDecayLaw ==
  [][/\ (actorKind \in {"ActorLambda", "ActorLambdaOffPolicy"}
           /\ result'.op \in {"reset", "initialize"})
          => e' = BZero
     /\ (actorKind = "ActorLambda" /\ actorCall'.n = actorCall.n + 1)
          => \A i \in Blocks :
               /\ e'[i] = VAddToSelf(VScale(DMul(gamma, lambda), e[i]), One,
                                     actorCall'.gradLog[i])
               /\ u'[i] = VAddToSelf(u[i], DMul(alpha_u, actorCall'.delta),
                                     e'[i])
     /\ (actorKind = "ActorLambdaOffPolicy" /\ actorCall'.n = actorCall.n + 1)
          => \A i \in Blocks :
               /\ e'[i] = VScale(actorCall'.rho,
                                 VAddToSelf(VScale(DMul(actorCall'.g, lambda),
                                                   e[i]),
                                            One, actorCall'.gradLog[i]))
               /\ u'[i] = VAddToSelf(u[i], DMul(alpha_u, actorCall'.delta),
                                     e'[i])]_vars

TraceDecayed ==
  /\ actorKind = "ActorLambda" /\ result.op \in {"update", "step"} /\ result.ok
  /\ actorCall.n = 2
  /\ \E i \in Blocks : e[i] # VZero /\ e[i] # actorCall.gradLog[i]
  /\ u # BZero

\* C6: for GQOnPolicyControl the rho_t computed in a step and passed to the GQ
\* update is 1.0 whatever the action and the state of the policy, also when the
\* acting policy gives a_t the probability 0; target and behavior are the one
\* acting policy, no other policy object is used.
OnPolicyRhoIsOne ==
  learner = "GQOnPolicyControl"
    => /\ predCall.n > 0 => predCall.rho = One
       /\ result.op = "step" => rho_t = One
       /\ TargetOf(Cur) = BehaviorOf(Cur)
       /\ \A i \in DOMAIN events : events[i].ev \notin {"target", "behavior"}
       /\ pol["target"] = NoPolicy /\ pol["behavior"] = NoPolicy

OnPolicyStepOfUnlikelyAction ==
  /\ learner = "GQOnPolicyControl" /\ result.op = "step" /\ result.ok
  /\ pi_a_t = 0 /\ predCall.n > 0 /\ predCall.rho = One

\* C7: in every completed ExpectedSarsaControl.step and GreedyGQ.step the
\* next-features vector handed to the predictor is the sum, over the actions a
\* with pi(x_tp1, a) # 0, of pi(x_tp1, a) * features(x_tp1, a), pi being the
\* acting (ExpectedSarsa) or target (GreedyGQ) policy at x_tp1, with nothing
\* left of the previous step's vector; in ExpectedSarsaControl the sampled
\* a_tp1 has nonzero probability.
WeightedFeatures(pi, x, a) ==
  [i \in Idx |-> IF pi[a] = 0 THEN 0 ELSE DMul(pi[a], Features(x, a)[i])]
ExpectedFeatures(pi, x) ==
  [i \in Idx |-> DAdd(WeightedFeatures(pi, x, 1)[i],
                      WeightedFeatures(pi, x, 2)[i])]
ExpectationVector ==
  (learner \in {"ExpectedSarsaControl", "GreedyGQ", "GQOnPolicyControl"}
     /\ result.op = "step" /\ result.ok)
    => /\ predCall.next =
            ExpectedFeatures(
              Distribution(IF learner = "GreedyGQ" THEN "target" ELSE "acting",
                           prevObs, u),
              prevObs)
       /\ phi_bar_tp1 = predCall.next
       /\ learner = "ExpectedSarsaControl"
            => Distribution("acting", prevObs, u)[result.ret] # 0

ExpectationRebuilt ==
  /\ learner \in {"ExpectedSarsaControl", "GreedyGQ"}
  /\ result.op = "step" /\ result.ok /\ predCall.n = 2
  /\ \E a \in Actions :
       Distribution(IF learner = "GreedyGQ" THEN "target" ELSE "acting",
                    prevObs, u)[a] = 0
  /\ predCall.next # VZero

\* C8: persist(name) followed by resurrect(name) on a new instance of the same
\* configuration gives, for every observation, the computeValueFunction and the
\* proposeAction of the persisted learner; composite learners use name.critic
\* and name.actor, the others name itself, and persist and resurrect derive
\* the same names.
PersistenceRoundTrip ==
  /\ \A f \in Names :
       /\ PersistCriticFile(f) = ResurrectCriticFile(f)
       /\ PersistActorFile(f) = ResurrectActorFile(f)
       /\ PersistCriticFile(f) = f \o ".critic"
       /\ PersistActorFile(f) = f \o ".actor"
  /\ saved.valid
       => \A f \in Names :
            IF learner \in Composites
            THEN /\ disk[f \o ".critic"] # Absent /\ disk[f \o ".actor"] # Absent
                 /\ disk[f] = Absent
            ELSE /\ disk[f] # Absent
                 /\ disk[f \o ".critic"] = Absent /\ disk[f \o ".actor"] = Absent
  /\ (result.op = "resurrect" /\ fresh)
       => /\ saved.valid
          /\ Answers(Cur).best = saved.best
          /\ Answers(Cur).v = saved.v

ResurrectedLearner ==
  /\ result.op = "resurrect" /\ fresh /\ learner \in Composites
  /\ q # VZero /\ u # BZero /\ q # u[1]
  /\ \E x \in Obs : saved.v[x] # 0
  /\ \E x \in Obs : saved.best[x] # 1

\* C9: a completed step of ActorCritic / AverageRewardActorCritic does, in this
\* order: the critic update, which yields delta_t; the refresh of the policy at
\* x_t; the actor's update with x_t, a_t and that delta_t, its gradient taken
\* from the policy at x_t with the parameters of before; the refresh of the
\* policy at x_tp1; the draw of the returned action from that distribution,
\* which is computed with the updated parameters.
ActorCriticStepOrder ==
  [][(learner \in ActorCritics /\ t' = t + 1 /\ result'.op = "step"
       /\ result'.ok)
       => /\ Len(events') = 6
          /\ events'[1].ev = "updateCritic"
          /\ events'[2].ev = "critic"
          /\ predCall'.n = predCall.n + 1
          /\ events'[3] = [ev |-> "actorPolicy", arg |-> actorCall'.x]
          /\ events'[4] = [ev |-> "actor", arg |-> actorCall'.x]
          /\ actorCall'.n = actorCall.n + 1
          /\ predCall'.phi = Project(actorCall'.x)
          /\ actorCall'.delta = predCall'.delta
          /\ actorCall'.cacheObs = actorCall'.x
          /\ actorCall'.gradLog =
               GradLog(ActorDist(actorCall'.x, u), actorCall'.x, actorCall'.a)
          /\ events'[5] = [ev |-> "actorPolicy", arg |-> prevObs']
          /\ predCall'.next = Project(prevObs')
          /\ pol'["actorPolicy"] =
               [obs |-> prevObs', pi |-> ActorDist(prevObs', u')]
          /\ events'[6] = [ev |-> "sample", arg |-> result'.ret]
          /\ result'.ret \in SampleSet(ActorDist(prevObs', u'))]_vars

ActorCriticStepped ==
  /\ learner \in ActorCritics /\ result.op = "step" /\ result.ok
  /\ actorCall.x # prevObs /\ actorCall.n = 2
  /\ ActorDist(prevObs, u) # ActorDist(prevObs, BZero)

\* C10: an AverageRewardActorCritic step updates the critic with the reward
\* r_tp1 - averageReward, averageReward being the value of before the step, and
\* then averageReward' = averageReward + alpha_r * delta_t, delta_t being what
\* that critic update returned; averageReward is 0 at construction, and no
\* other operation changes it.
AverageRewardBaseline ==
  /\ averageReward = 0
  /\ [][/\ (learner = "AverageRewardActorCritic"
              /\ predCall'.n = predCall.n + 1)
             => /\ events'[1].ev = "updateCritic"
                /\ predCall'.r = DSub(events'[1].arg, averageReward)
                /\ averageReward' =
                     DAdd(averageReward, DMul(alpha_r, predCall'.delta))
        /\ (learner # "AverageRewardActorCritic"
              \/ predCall'.n # predCall.n + 1)
             => averageReward' = IF result'.op = "new" THEN 0
                                 ELSE averageReward]_vars

BaselineSubtracted ==
  /\ learner = "AverageRewardActorCritic" /\ result.op = "step" /\ result.ok
  /\ predCall.n = 2 /\ averageReward # 0
  /\ predCall.r # events[1].arg

\* C11: for SarsaControl, ExpectedSarsaControl and GreedyGQ (and its subclass
\* GQOnPolicyControl), once initialize or step has returned an action the
\* cached vector (xa_t, resp. phi_t) is the features of the action last
\* returned at the observation last passed as x_0 / x_tp1, whatever was called
\* since; and the first argument of every predictor update is the features of
\* that pair, whatever x_t and a_t the driver passes to step.
CachedFeatures == IF learner \in SarsaFamily THEN xa_t ELSE phi_t
CachedCurrentFeatures ==
  [][(learner \in ValueLearners)
       => ((prevObs' # 0 => CachedFeatures' = Features(prevObs', prevAct'))
           /\ ((result'.op \in {"initialize", "step"} /\ result'.ok
                  /\ (t' = t + 1 \/ result'.op = "initialize"))
                 => prevAct' = result'.ret)
           /\ ((predCall'.n = predCall.n + 1)
                 => (prevObs # 0
                     /\ predCall'.phi = Features(prevObs, prevAct))))]_vars

CacheAdvanced ==
  /\ learner \in {"SarsaControl", "ExpectedSarsaControl", "GreedyGQ"}
  /\ result.op = "step" /\ result.ok /\ predCall.n = 2
  /\ CachedFeatures = Features(prevObs, result.ret)
  /\ CachedFeatures # predCall.phi

\* C12: an accepted ActorNatural.update computes the advantage
\* A = sum over the blocks i of gradLog_i . w_i from w as it is on entry;
\* then, for every block i, w_i' = w_i + alpha_v*(delta - A)*gradLog_i and
\* u_i' = u_i + alpha_u*w_i'; reset() leaves u and w zero.
EntryAdvantage(gl) == DAdd(DAdd(0, VDot(gl[1], w[1])), VDot(gl[2], w[2]))
NaturalGradientUpdate ==
  [][(actorKind = "ActorNatural")
       => (((actorCall'.n = actorCall.n + 1)
              => \A i \in Blocks :
                   /\ w'[i] =
                        VAddToSelf(
                          w[i],
                          DMul(alpha_v,
                               DSub(actorCall'.delta,
                                    EntryAdvantage(actorCall'.gradLog))),
                          actorCall'.gradLog[i])
                   /\ u'[i] = VAddToSelf(u[i], alpha_u, w'[i]))
           /\ ((actorCall'.n # actorCall.n + 1 /\ result'.op # "reset"
                  /\ result'.op # "new" /\ result'.op # "resurrect")
                 => (w' = w /\ u' = u))
           /\ ((result'.op = "reset") => (u' = BZero /\ w' = BZero)))]_vars

NaturalUpdated ==
  /\ actorKind = "ActorNatural" /\ result.op \in {"update", "step"}
  /\ result.ok /\ actorCall.n = 2
  /\ w # BZero /\ u # BZero /\ u # w
  /\ \E i \in Blocks : actorCall.gradLog[i] # VZero
  /\ DAdd(VDot(actorCall.gradLog[1], w[1]), VDot(actorCall.gradLog[2], w[2]))
       # 0

====
